---- MODULE Spec2Model ----
(***************************************************************************)
(* Model of the WebParsing scrapers: the retrying fetcher                  *)
(* (utils/request_utils.py) and the cached, concurrent crawl of the books  *)
(* scraper (books/async.py).                                               *)
(*                                                                         *)
(* One action models one resumption of a coroutine: the code that runs     *)
(* between two awaits runs atomically on the single-threaded event loop.   *)
(***************************************************************************)
EXTENDS Integers, Sequences, FiniteSets, TLC

(***************************************************************************)
(* Bounds of the model.                                                    *)
(***************************************************************************)
\* pages of one batch: main() crawls range(1, 51); the model crawls 1..NumPages
NumPages == 2
\* how many times the program is run on the same cache directory
MaxRuns == 2
\* concurrent fetch_with_retry calls
NumFetchTasks == 2
\* largest retries argument tried
MaxRetries == 3
\* largest delay argument tried (seconds)
MaxDelay == 2

Pages == 1..NumPages
FetchTasks == 1..NumFetchTasks

(***************************************************************************)
(* Texts: response bodies and file contents.  links is what                *)
(* soup.find_all("div", class_="image_container") yields for the text,     *)
(* reduced to the book names of the hrefs.                                 *)
(***************************************************************************)
Text(k, l) == [kind |-> k, links |-> l]
\* Python None
None == Text("None", <<>>)
\* the path is no file (os.path.isfile is False)
NoFile == Text("nofile", <<>>)
\* a response with an empty body: ""
EmptyText == Text("empty", <<>>)
\* the body of a non-2xx response: an error page without image containers
ErrBody == Text("errpage", <<>>)
\* the body of a book detail page
BookBody == Text("book", <<>>)
\* the body of a page fetched through fetch_with_retry
OkBody == Text("body", <<>>)
\* listings a pagination page can carry: two distinct books, or one book twice
Listings == { <<"a", "b">>, <<"a", "a">> }
PageBodies == { Text("html", l) : l \in Listings }

\* outcome of one HTTP GET as the transport delivers it; status is a non-2xx
\* response
Outcomes == {"ok", "status", "timeout", "connerr"}
\* the same for fetch_with_retry, client and server errors told apart
FetchOutcomes == {"ok", "status4xx", "status5xx", "timeout", "connerr"}
\* outcome of one file write
IoOutcomes == {"ok", "oserror"}

\* truthiness of an Optional[str]: None and "" are falsy
Truthy(t) == t.kind \notin {"None", "empty"}

\* cache paths
PagePath(p) == [dir |-> "pagination_pages", page |-> p, name |-> ""]
BookPath(p, n) == [dir |-> "books", page |-> p, name |-> n]
Names == UNION { {l[i] : i \in DOMAIN l} : l \in Listings }
Paths == {PagePath(p) : p \in Pages} \cup {BookPath(p, n) : p \in Pages, n \in Names}

isfile(d, path) == d[path] # NoFile

\* cats/main.py: what one answer of the image API can list, reduced to the
\* file names image["url"].rsplit("/")[-1]
CatListings == { <<"x">>, <<"x", "y">> }
CatNames == UNION { {l[i] : i \in DOMAIN l} : l \in CatListings }
\* the bytes an image URL can deliver
ImageBytes == { Text("jpg1", <<>>), Text("jpg2", <<>>) }

VARIABLES
    \* ---- retrying fetcher: one entry per fetch_with_retry call ----
    fpc,        \* position: "idle", "get", "sleep", "returned", "raised"
    attempt,    \* the local attempt
    retries,    \* the retries argument
    delay,      \* the delay argument
    fret,       \* the value returned
    gets,       \* GET requests issued by the call
    sleeps,     \* asyncio.sleep calls made by the call
    waited,     \* seconds slept in total
    \* ---- books crawl ----
    run,        \* number of the current program run
    mpc,        \* position of main
    mainExc,    \* exception that left main, "none" if none
    results,    \* book_filenames_per_page
    bodies,     \* the book pages read back in phase 2, per page
    ptask,      \* process_page(p): [pc, text, exc, out, hit]
    btask,      \* per page, the fetch_and_save_book tasks of its listing
    ret,        \* per page, the book_filenames process_page returns
    used,       \* per page, the page_content process_page parsed
    order,      \* pages in the order their process_page completed
    disk,       \* the cache: path -> text, NoFile if absent
    pagDir,     \* does source/pagination_pages exist
    netCalls,   \* GET requests issued in this run, per cache path
    writes,     \* completed writes in this run, per cache path
    ioerr,      \* did a cache write raise OSError in this run
    diskPrev,   \* the cache as the previous run left it
    bodiesPrev, \* the book pages the previous run read back
    csv,        \* async_books.csv: "absent", "empty" or "rows"
    json,       \* async_books.json: "absent" or "written"
    \* ---- the scripts that start with a fetch_with_retry call ----
    cprog,      \* per call, the script whose main makes it, "none" if none
    cpc,        \* per call, the position of that main
    cret,       \* per call, what the first stage returned to main
    ctasks,     \* per call, the tasks main handed to its gather
    \* ---- cats/main.py ----
    kpc,        \* position of main
    kbatch,     \* fetch_batch(page): its position
    kimg,       \* per batch, its fetch_and_save_image tasks
    img,        \* cat_images: file name -> bytes, NoFile if absent
    imgPrev,    \* cat_images as the previous run left it
    imgCalls,   \* GET requests issued in this run, per image file
    krun,       \* number of the current run of cats/main.py
    \* ---- hockey/hockey_sync.py ----
    prog,       \* the script that is run
    hpc,        \* position of main
    hcount,     \* pages_count
    hpage,      \* the page the loop of main is at
    hdata,      \* len(all_data)
    hsrc,       \* where the text of the last parsed page came from
    hpending,   \* were fetches still to come when it was parsed
    hcsv,       \* sync_hockey_data.csv
    hjson       \* sync_hockey_data.json

fvars == <<fpc, attempt, retries, delay, fret, gets, sleeps, waited>>
bvars == <<run, mpc, mainExc, results, bodies, ptask, btask, ret, used, order,
           disk, pagDir, netCalls, writes, ioerr, diskPrev, bodiesPrev,
           csv, json>>
ovars == <<csv, json>>
cvars == <<cprog, cpc, cret, ctasks>>
kvars == <<kpc, kbatch, kimg, img, imgPrev, imgCalls, krun>>
hvars == <<prog, hpc, hcount, hpage, hdata, hsrc, hpending, hcsv, hjson>>
xvars == <<cvars, kvars, hvars>>
vars == <<fpc, attempt, retries, delay, fret, gets, sleeps, waited,
          run, mpc, mainExc, results, bodies, ptask, btask, ret, used, order,
          disk, pagDir, netCalls, writes, ioerr, diskPrev, bodiesPrev,
          csv, json, cprog, cpc, cret, ctasks,
          kpc, kbatch, kimg, img, imgPrev, imgCalls, krun,
          prog, hpc, hcount, hpage, hdata, hsrc, hpending, hcsv, hjson>>

\* a process_page task that has not run yet
NewPage == [pc |-> "start", text |-> None, exc |-> "none", out |-> "none", hit |-> NoFile]

\* the state main() sets up for one run, the cache left alone
RunInit ==
    /\ mpc = "gather"
    /\ mainExc = "none"
    /\ results = <<>>
    /\ bodies = <<>>
    /\ ptask = [p \in Pages |-> NewPage]
    /\ btask = [p \in Pages |-> <<>>]
    /\ ret = [p \in Pages |-> <<>>]
    /\ used = [p \in Pages |-> None]
    /\ order = <<>>
    /\ netCalls = [x \in Paths |-> 0]
    /\ writes = [x \in Paths |-> 0]
    /\ ioerr = FALSE

InitBase ==
    /\ fpc = [t \in FetchTasks |-> "idle"]
    /\ attempt = [t \in FetchTasks |-> 0]
    /\ retries = [t \in FetchTasks |-> 0]
    /\ delay = [t \in FetchTasks |-> 0]
    /\ fret = [t \in FetchTasks |-> None]
    /\ gets = [t \in FetchTasks |-> 0]
    /\ sleeps = [t \in FetchTasks |-> 0]
    /\ waited = [t \in FetchTasks |-> 0]
    /\ run = 1
    /\ RunInit
    /\ disk = [x \in Paths |-> NoFile]
    /\ pagDir \in BOOLEAN
    /\ diskPrev = [x \in Paths |-> NoFile]
    /\ bodiesPrev = <<>>
    /\ csv = "absent"
    /\ json = "absent"
    /\ cprog = [t \in FetchTasks |-> "none"]
    /\ cpc = [t \in FetchTasks |-> "idle"]
    /\ cret = [t \in FetchTasks |-> 0]
    /\ ctasks = [t \in FetchTasks |-> 0]
    /\ krun = 1
    /\ kpc = "gather"
    /\ kbatch = [p \in Pages |-> "start"]
    /\ kimg = [p \in Pages |-> <<>>]
    /\ img = [n \in CatNames |-> NoFile]
    /\ imgPrev = [n \in CatNames |-> NoFile]
    /\ imgCalls = [n \in CatNames |-> 0]
    /\ hpc = "count"
    /\ hcount = 0
    /\ hpage = 0
    /\ hdata = 0
    /\ hsrc = "none"
    /\ hpending = FALSE
    /\ hcsv = "absent"
    /\ hjson = "absent"

\* the script that is run is books/async.py
Init == InitBase /\ prog = "books/async.py"

(***************************************************************************)
(* utils/request_utils.py: fetch_with_retry                                *)
(***************************************************************************)
\* the exceptions the except clause catches: aiohttp.ClientError (connection
\* errors, and the ClientResponseError of raise_for_status) and asyncio.TimeoutError
CaughtTimeoutOnly(o) == o = "timeout"
Caught(o) == o \in {"status4xx", "status5xx", "timeout", "connerr"}

\* the test attempt < retries, of the while and of the if before the sleep
MoreAttemptsInclusive(a, r) == a <= r
MoreAttempts(a, r) == a < r

\* attempt += 1
NextAttemptStuck(a) == a
NextAttempt(a) == a + 1

\* can the event loop resume call t: await asyncio.sleep(delay) suspends the
\* calling task alone, so a sleeping call holds up no other
LoopHeldBySleeper(f, t) == \A u \in DOMAIN f : u # t => f[u] # "sleep"
LoopFree(f, t) == TRUE

\* the call: attempt = 0, then the loop test
FetchCall(t, r, d) ==
    /\ fpc[t] = "idle"
    /\ LoopFree(fpc, t)
    /\ retries' = [retries EXCEPT ![t] = r]
    /\ delay' = [delay EXCEPT ![t] = d]
    /\ attempt' = [attempt EXCEPT ![t] = 0]
    /\ IF MoreAttempts(0, r)
         THEN fpc' = [fpc EXCEPT ![t] = "get"]
         ELSE fpc' = [fpc EXCEPT ![t] = "returned"]
    /\ UNCHANGED <<fret, gets, sleeps, waited>>
    /\ UNCHANGED bvars
    /\ UNCHANGED xvars

\* one pass of the loop body: the GET and what follows it up to the next await
FetchAttempt(t, o) ==
    /\ fpc[t] = "get"
    /\ LoopFree(fpc, t)
    /\ gets' = [gets EXCEPT ![t] = @ + 1]
    /\ IF o = "ok"
         THEN /\ fret' = [fret EXCEPT ![t] = OkBody]
              /\ fpc' = [fpc EXCEPT ![t] = "returned"]
              /\ UNCHANGED <<attempt, sleeps>>
         ELSE IF Caught(o)
           THEN /\ attempt' = [attempt EXCEPT ![t] = NextAttempt(@)]
                /\ IF MoreAttempts(NextAttempt(attempt[t]), retries[t])
                     THEN /\ sleeps' = [sleeps EXCEPT ![t] = @ + 1]
                          /\ fpc' = [fpc EXCEPT ![t] = "sleep"]
                          /\ UNCHANGED fret
                     ELSE /\ fret' = [fret EXCEPT ![t] = None]
                          /\ fpc' = [fpc EXCEPT ![t] = "returned"]
                          /\ UNCHANGED sleeps
           ELSE /\ fpc' = [fpc EXCEPT ![t] = "raised"]
                /\ UNCHANGED <<attempt, sleeps, fret>>
    /\ UNCHANGED <<retries, delay, waited>>
    /\ UNCHANGED bvars
    /\ UNCHANGED xvars

\* asyncio.sleep(delay) is over: back to the loop test
FetchWake(t) ==
    /\ fpc[t] = "sleep"
    /\ LoopFree(fpc, t)
    /\ waited' = [waited EXCEPT ![t] = @ + delay[t]]
    /\ IF MoreAttempts(attempt[t], retries[t])
         THEN fpc' = [fpc EXCEPT ![t] = "get"]
         ELSE fpc' = [fpc EXCEPT ![t] = "returned"]
    /\ UNCHANGED <<attempt, retries, delay, fret, gets, sleeps>>
    /\ UNCHANGED bvars
    /\ UNCHANGED xvars

NextFetch ==
    \/ \E t \in FetchTasks, r \in 0..MaxRetries, d \in 1..MaxDelay : FetchCall(t, r, d)
    \/ \E t \in FetchTasks, o \in FetchOutcomes : FetchAttempt(t, o)
    \/ \E t \in FetchTasks : FetchWake(t)

\* the fetcher alone: the cache directory plays no part in it
InitFetch == Init /\ pagDir

SpecFetch == InitFetch /\ [][NextFetch]_vars

\* every attempt settles and every sleep ends
FairFetch ==
    \A t \in FetchTasks :
        /\ WF_vars(\E o \in FetchOutcomes : FetchAttempt(t, o))
        /\ WF_vars(FetchWake(t))

SpecFetchFair == SpecFetch /\ FairFetch

(***************************************************************************)
(* books/async.py                                                          *)
(***************************************************************************)
\* a fetch_and_save_book task: pc is "skip" where the loop made no task
NewBook(pc, hit) == [pc |-> pc, text |-> None, exc |-> "none", out |-> "none", hit |-> hit]

\* the body the site sends with an outcome that carries one
BodiesOf(o, okBodies) == IF o = "ok" THEN okBodies ELSE {ErrBody}

\* tasks of the crawl that have not settled
PageInFlight(p) == ptask[p].pc \in {"start", "get", "write", "read", "gather"}
BookInFlight(p, i) == btask[p][i].pc \in {"get", "write"}
InFlight ==
    \/ \E p \in Pages : PageInFlight(p)
    \/ \E p \in Pages : \E i \in DOMAIN btask[p] : BookInFlight(p, i)

\* process_page up to its first await: the cache check, then either the GET of
\* get_pagination_page or the read of the cached file
CachedPageAlwaysFetch(d, p) == FALSE
CachedPage(d, p) == isfile(d, PagePath(p))

PageStart(p) ==
    /\ prog = "books/async.py"
    /\ mpc = "gather"
    /\ ptask[p].pc = "start"
    /\ IF ~CachedPage(disk, p)
         THEN /\ ptask' = [ptask EXCEPT ![p].pc = "get", ![p].hit = disk[PagePath(p)]]
              /\ netCalls' = [netCalls EXCEPT ![PagePath(p)] = @ + 1]
         ELSE /\ ptask' = [ptask EXCEPT ![p].pc = "read", ![p].hit = disk[PagePath(p)]]
              /\ UNCHANGED netCalls
    /\ UNCHANGED <<run, mpc, mainExc, results, bodies, btask, ret, used, order,
                   disk, pagDir, writes, ioerr, diskPrev, bodiesPrev>>
    /\ UNCHANGED fvars
    /\ UNCHANGED xvars
    /\ UNCHANGED ovars

\* get_pagination_page settles: only TimeoutError is caught (it returns None;
\* the timeout of aiohttp is the builtin TimeoutError from Python 3.11 on);
\* no raise_for_status, so the body of any response is the page's text.
\* A truthy text goes to write_html_to_file, anything else straight to the read.
PageGetDone(p, o, body) ==
    /\ mpc = "gather"
    /\ ptask[p].pc = "get"
    /\ IF o = "timeout"
         THEN ptask' = [ptask EXCEPT ![p].pc = "read", ![p].out = o]
         ELSE IF o = "connerr"
           THEN ptask' = [ptask EXCEPT ![p].pc = "raised", ![p].out = o,
                                       ![p].exc = "ClientError"]
           ELSE IF Truthy(body)
             THEN ptask' = [ptask EXCEPT ![p].pc = "write", ![p].out = o,
                                         ![p].text = body]
             ELSE ptask' = [ptask EXCEPT ![p].pc = "read", ![p].out = o]
    /\ UNCHANGED <<run, mpc, mainExc, results, bodies, btask, ret, used, order,
                   disk, pagDir, netCalls, writes, ioerr, diskPrev, bodiesPrev>>
    /\ UNCHANGED fvars
    /\ UNCHANGED xvars
    /\ UNCHANGED ovars

\* write_html_to_file(page_content, filename) settles: nothing catches an
\* OSError, and nothing creates source/pagination_pages
PageWriteDone(p, io) ==
    /\ mpc = "gather"
    /\ ptask[p].pc = "write"
    /\ IF pagDir /\ io = "ok"
         THEN /\ disk' = [disk EXCEPT ![PagePath(p)] = ptask[p].text]
              /\ writes' = [writes EXCEPT ![PagePath(p)] = @ + 1]
              /\ ptask' = [ptask EXCEPT ![p].pc = "read"]
              /\ UNCHANGED ioerr
         ELSE /\ ptask' = [ptask EXCEPT ![p].pc = "raised", ![p].exc = "OSError"]
              /\ ioerr' = TRUE
              /\ UNCHANGED <<disk, writes>>
    /\ UNCHANGED <<run, mpc, mainExc, results, bodies, btask, ret, used, order,
                   pagDir, netCalls, diskPrev, bodiesPrev>>
    /\ UNCHANGED fvars
    /\ UNCHANGED xvars
    /\ UNCHANGED ovars

\* the book names of the image containers of a page, in document order
BookNames(text) == text.links

\* the loop over the images: a task for every book whose file is missing
BookTasksUnchecked(d, p, names) ==
    [i \in DOMAIN names |-> NewBook("get", d[BookPath(p, names[i])])]
BookTasks(d, p, names) ==
    [i \in DOMAIN names |->
        IF ~isfile(d, BookPath(p, names[i]))
          THEN NewBook("get", d[BookPath(p, names[i])])
          ELSE NewBook("skip", d[BookPath(p, names[i])])]

\* GET requests the tasks of a listing issue for path x as gather starts them
Issued(tasks, p, names, x) ==
    Cardinality({i \in DOMAIN names : tasks[i].pc = "get" /\ BookPath(p, names[i]) = x})

\* read_html_from_file settles, then the rest of process_page up to the gather:
\* a missing file reads as None and BeautifulSoup(None, "lxml") raises TypeError.
\* os.makedirs creates source/books/page<p> here, so the directory of every
\* book file exists before a book task writes.
PageReadDone(p) ==
    /\ mpc = "gather"
    /\ ptask[p].pc = "read"
    /\ IF ~isfile(disk, PagePath(p))
         THEN /\ ptask' = [ptask EXCEPT ![p].pc = "raised", ![p].exc = "TypeError"]
              /\ UNCHANGED <<btask, ret, used, order, netCalls>>
         ELSE LET content == disk[PagePath(p)]
                  names == BookNames(content)
                  tasks == BookTasks(disk, p, names)
              IN /\ used' = [used EXCEPT ![p] = content]
                 /\ ret' = [ret EXCEPT ![p] = [i \in DOMAIN names |-> BookPath(p, names[i])]]
                 /\ btask' = [btask EXCEPT ![p] = tasks]
                 /\ netCalls' = [x \in Paths |-> netCalls[x] + Issued(tasks, p, names, x)]
                 /\ IF \E i \in DOMAIN tasks : tasks[i].pc = "get"
                      THEN /\ ptask' = [ptask EXCEPT ![p].pc = "gather"]
                           /\ UNCHANGED order
                      ELSE /\ ptask' = [ptask EXCEPT ![p].pc = "done"]
                           /\ order' = Append(order, p)
    /\ UNCHANGED <<run, mpc, mainExc, results, bodies, disk, pagDir, writes,
                   ioerr, diskPrev, bodiesPrev>>
    /\ UNCHANGED fvars
    /\ UNCHANGED xvars
    /\ UNCHANGED ovars

\* fetch_and_save_book: session.get and response.text() settle; TimeoutError is
\* caught, any other exception leaves the task
BookGetDone(p, i, o, body) ==
    /\ mpc = "gather"
    /\ i \in DOMAIN btask[p]
    /\ btask[p][i].pc = "get"
    /\ IF o = "timeout"
         THEN btask' = [btask EXCEPT ![p][i].pc = "done", ![p][i].out = o]
         ELSE IF o = "connerr"
           THEN btask' = [btask EXCEPT ![p][i].pc = "raised", ![p][i].out = o,
                                       ![p][i].exc = "ClientError"]
           ELSE btask' = [btask EXCEPT ![p][i].pc = "write", ![p][i].out = o,
                                       ![p][i].text = body]
    /\ UNCHANGED <<run, mpc, mainExc, results, bodies, ptask, ret, used, order,
                   disk, pagDir, netCalls, writes, ioerr, diskPrev, bodiesPrev>>
    /\ UNCHANGED fvars
    /\ UNCHANGED xvars
    /\ UNCHANGED ovars

\* fetch_and_save_book: write_html_to_file(text, book_filename) settles
BookWriteDone(p, i, io) ==
    /\ mpc = "gather"
    /\ i \in DOMAIN btask[p]
    /\ btask[p][i].pc = "write"
    /\ IF io = "ok"
         THEN /\ disk' = [disk EXCEPT ![ret[p][i]] = btask[p][i].text]
              /\ writes' = [writes EXCEPT ![ret[p][i]] = @ + 1]
              /\ btask' = [btask EXCEPT ![p][i].pc = "done"]
              /\ UNCHANGED ioerr
         ELSE /\ btask' = [btask EXCEPT ![p][i].pc = "raised", ![p][i].exc = "OSError"]
              /\ ioerr' = TRUE
              /\ UNCHANGED <<disk, writes>>
    /\ UNCHANGED <<run, mpc, mainExc, results, bodies, ptask, ret, used, order,
                   pagDir, netCalls, diskPrev, bodiesPrev>>
    /\ UNCHANGED fvars
    /\ UNCHANGED xvars
    /\ UNCHANGED ovars

\* process_page: asyncio.gather(*tasks) settles, with the first exception of a
\* task as soon as there is one (the other tasks keep running), else when every
\* task is done; then return book_filenames
PageGatherDone(p) ==
    /\ mpc = "gather"
    /\ ptask[p].pc = "gather"
    /\ \/ \E i \in DOMAIN btask[p] :
            /\ btask[p][i].pc = "raised"
            /\ ptask' = [ptask EXCEPT ![p].pc = "raised", ![p].exc = btask[p][i].exc]
            /\ UNCHANGED order
       \/ /\ \A i \in DOMAIN btask[p] : btask[p][i].pc \in {"done", "skip"}
          /\ ptask' = [ptask EXCEPT ![p].pc = "done"]
          /\ order' = Append(order, p)
    /\ UNCHANGED <<run, mpc, mainExc, results, bodies, btask, ret, used,
                   disk, pagDir, netCalls, writes, ioerr, diskPrev, bodiesPrev>>
    /\ UNCHANGED fvars
    /\ UNCHANGED xvars
    /\ UNCHANGED ovars

\* what asyncio.gather hands back: the results in the order of its arguments
GatheredInCompletionOrder(r, ord) == [i \in 1..Len(ord) |-> r[ord[i]]]
Gathered(r, ord) == [i \in 1..NumPages |-> r[i]]

\* the gather of main returns its results once every process_page has returned
FirstSettled(pt) == \E p \in Pages : pt[p].pc = "done"
AllSettled(pt) == \A p \in Pages : pt[p].pc = "done"

\* main: the gather over process_page settles and the session is closed
MainGatherDone ==
    /\ mpc = "gather"
    /\ \/ \E p \in Pages :
            /\ ptask[p].pc = "raised"
            /\ mpc' = "raised"
            /\ mainExc' = ptask[p].exc
            /\ UNCHANGED results
       \/ /\ AllSettled(ptask)
          /\ mpc' = "parse"
          /\ results' = Gathered(ret, order)
          /\ UNCHANGED mainExc
    /\ UNCHANGED <<run, bodies, ptask, btask, ret, used, order,
                   disk, pagDir, netCalls, writes, ioerr, diskPrev, bodiesPrev>>
    /\ UNCHANGED fvars
    /\ UNCHANGED xvars
    /\ UNCHANGED ovars

\* read_html_from_file: the text of the file, None if there is none
ReadHtml(d, path) == IF isfile(d, path) THEN d[path] ELSE None

\* parse_book yields a record for the text of a book page only: on any other
\* text a find returns None and the AttributeError is caught by the loop, as is
\* the TypeError of BeautifulSoup(None)
Parses(t) == t.kind = "book"

\* len(books_data) after the loop over the texts read back
RECURSIVE CountParsed(_)
CountParsed(texts) ==
    IF texts = <<>> THEN 0
    ELSE (IF Parses(Head(texts)) THEN 1 ELSE 0) + CountParsed(Tail(texts))

RECURSIVE Records(_)
Records(perPage) ==
    IF perPage = <<>> THEN 0
    ELSE CountParsed(Head(perPage)) + Records(Tail(perPage))

\* utils.file_utils.save_to_csv with n records on a file in state old: an empty
\* list is logged and the file is not opened
save_to_csv(n, old) ==
    IF n = 0 THEN [csv |-> old, exc |-> "none"] ELSE [csv |-> "rows", exc |-> "none"]

\* books/sync.py write_to_csv with n records: the file is opened for writing
\* first, then data[0] raises IndexError on an empty list
write_to_csv(n, old) ==
    IF n = 0 THEN [csv |-> "empty", exc |-> "IndexError"] ELSE [csv |-> "rows", exc |-> "none"]

\* main, phase 2: every book file is read back from the cache and parsed; a
\* file that reads as None makes BeautifulSoup raise, and the loop skips it.
\* Then the records go to write_to_csv and, if that returns, to write_to_json.
MainParse ==
    /\ mpc = "parse"
    /\ LET read == [i \in DOMAIN results |->
                      [k \in DOMAIN results[i] |-> ReadHtml(disk, results[i][k])]]
           w == write_to_csv(Records(read), csv)
       IN /\ bodies' = read
          /\ csv' = w.csv
          /\ IF w.exc = "none"
               THEN /\ json' = "written"
                    /\ mpc' = "done"
                    /\ UNCHANGED mainExc
               ELSE /\ mpc' = "raised"
                    /\ mainExc' = w.exc
                    /\ UNCHANGED json
    /\ UNCHANGED <<run, results, ptask, btask, ret, used, order,
                   disk, pagDir, netCalls, writes, ioerr, diskPrev, bodiesPrev>>
    /\ UNCHANGED fvars
    /\ UNCHANGED xvars

\* asyncio.run: once main has raised, the tasks still pending are cancelled
Cancelled(t) == IF t.pc \in {"start", "get", "write", "read", "gather"}
                  THEN [t EXCEPT !.pc = "cancelled"] ELSE t

RunCleanup ==
    /\ mpc = "raised"
    /\ mpc' = "aborted"
    /\ ptask' = [p \in Pages |-> Cancelled(ptask[p])]
    /\ btask' = [p \in Pages |-> [i \in DOMAIN btask[p] |-> Cancelled(btask[p][i])]]
    /\ UNCHANGED <<run, mainExc, results, bodies, ret, used, order,
                   disk, pagDir, netCalls, writes, ioerr, diskPrev, bodiesPrev>>
    /\ UNCHANGED fvars
    /\ UNCHANGED xvars
    /\ UNCHANGED ovars

\* the program is run again on the cache the last run left
NextRun ==
    /\ mpc \in {"done", "aborted"}
    /\ run < MaxRuns
    /\ run' = run + 1
    /\ diskPrev' = disk
    /\ bodiesPrev' = bodies
    /\ mpc' = "gather"
    /\ mainExc' = "none"
    /\ results' = <<>>
    /\ bodies' = <<>>
    /\ ptask' = [p \in Pages |-> NewPage]
    /\ btask' = [p \in Pages |-> <<>>]
    /\ ret' = [p \in Pages |-> <<>>]
    /\ used' = [p \in Pages |-> None]
    /\ order' = <<>>
    /\ netCalls' = [x \in Paths |-> 0]
    /\ writes' = [x \in Paths |-> 0]
    /\ ioerr' = FALSE
    /\ UNCHANGED <<disk, pagDir>>
    /\ UNCHANGED fvars
    /\ UNCHANGED xvars
    /\ UNCHANGED ovars

Next ==
    \/ \E p \in Pages : PageStart(p)
    \/ \E p \in Pages, o \in Outcomes :
         \E body \in BodiesOf(o, PageBodies \cup {EmptyText}) : PageGetDone(p, o, body)
    \/ \E p \in Pages, io \in IoOutcomes : PageWriteDone(p, io)
    \/ \E p \in Pages : PageReadDone(p)
    \/ \E p \in Pages : \E i \in DOMAIN btask[p], o \in Outcomes :
         \E body \in BodiesOf(o, {BookBody}) : BookGetDone(p, i, o, body)
    \/ \E p \in Pages : \E i \in DOMAIN btask[p], io \in IoOutcomes : BookWriteDone(p, i, io)
    \/ \E p \in Pages : PageGatherDone(p)
    \/ MainGatherDone
    \/ MainParse
    \/ RunCleanup
    \/ NextRun

Spec == Init /\ [][Next]_vars

(***************************************************************************)
(* Properties                                                              *)
(***************************************************************************)
Aborted == mpc \in {"raised", "aborted"}

\* C1: a fetch_with_retry call with retries = R >= 1 that ends in the terminal
\* failure (every attempt failed: timeout, connection error, 4xx or 5xx) has
\* issued exactly R GETs and slept exactly R-1 times, (R-1)*delay seconds in all.
C1_RetryBudget ==
    \A t \in FetchTasks :
        (fpc[t] = "returned" /\ fret[t] = None /\ retries[t] >= 1) =>
            /\ gets[t] = retries[t]
            /\ sleeps[t] = retries[t] - 1
            /\ waited[t] = (retries[t] - 1) * delay[t]

\* a call with three retries and a positive delay has given up
C1_Witness ==
    \E t \in FetchTasks :
        /\ fpc[t] = "returned" /\ fret[t] = None
        /\ retries[t] = 3 /\ delay[t] > 0 /\ gets[t] = 3

\* C7: whatever the outcomes of its attempts (success, timeout, connection
\* error, non-2xx status), fetch_with_retry never raises: it ends by returning
\* the body, or None once the retries are used up.
C7_NeverRaises ==
    \A t \in FetchTasks :
        /\ fpc[t] # "raised"
        /\ fpc[t] = "returned" =>
              \/ fret[t] = OkBody
              \/ fret[t] = None /\ attempt[t] = retries[t]

\* a call has returned the body after a failed attempt, another has given up
C7_Witness ==
    /\ \E t \in FetchTasks : fpc[t] = "returned" /\ fret[t] = OkBody /\ gets[t] >= 2
    /\ \E t \in FetchTasks : fpc[t] = "returned" /\ fret[t] = None /\ gets[t] >= 2

\* C2 (as claimed): a batch in which a fetch failed (timeout or connection
\* error) and no cache write failed still returns: no exception leaves main.
FetchFailed ==
    \/ \E p \in Pages : ptask[p].out \in {"timeout", "connerr"}
    \/ \E p \in Pages : \E i \in DOMAIN btask[p] : btask[p][i].out \in {"timeout", "connerr"}

C2_BatchNeverAborts == (FetchFailed /\ ~ioerr) => ~Aborted

\* C3: a target whose cache file existed when the crawl checked it gets no GET
\* in that run, and the text used downstream (the page_content that is parsed,
\* the book page read back in phase 2) is the content the file had then.
C3_CacheHitNoFetch ==
    /\ \A p \in Pages :
          (ptask[p].pc # "start" /\ ptask[p].hit # NoFile) =>
              /\ netCalls[PagePath(p)] = 0
              /\ ptask[p].pc \in {"gather", "done"} => used[p] = ptask[p].hit
    /\ \A p \in Pages : \A i \in DOMAIN btask[p] :
          btask[p][i].hit # NoFile =>
              /\ btask[p][i].pc = "skip"
              /\ netCalls[ret[p][i]] = 0
              /\ mpc = "done" => bodies[p][i] = btask[p][i].hit

\* a run has ended in which a cached page and a cached book were used
C3_Witness ==
    /\ mpc = "done"
    /\ \E p \in Pages :
          /\ ptask[p].hit # NoFile
          /\ used[p] = ptask[p].hit
          /\ \E i \in DOMAIN btask[p] : btask[p][i].hit # NoFile /\ bodies[p][i] = BookBody

\* C4 (as claimed): a file that was missing when the crawl checked it exists
\* afterwards only if a fetch of it succeeded with a 2xx response.
C4_CacheOnlyFromSuccess ==
    /\ \A p \in Pages :
          (ptask[p].pc # "start" /\ ptask[p].hit = NoFile /\ isfile(disk, PagePath(p))) =>
              ptask[p].out = "ok"
    /\ \A p \in Pages : \A i \in DOMAIN btask[p] :
          (btask[p][i].hit = NoFile /\ isfile(disk, ret[p][i])) =>
              \E j \in DOMAIN btask[p] : ret[p][j] = ret[p][i] /\ btask[p][j].out = "ok"

\* C5: when the gather of main returns, book_filenames_per_page has one entry
\* per page, entry i is what process_page(i) returned, its files are those of
\* page i in the order of the listing, whatever the order of completion.
C5_ResultsInOrder ==
    mpc \in {"parse", "done"} =>
        /\ Len(results) = NumPages
        /\ \A i \in Pages :
              /\ results[i] = ret[i]
              /\ Len(results[i]) = Len(used[i].links)
              /\ \A k \in DOMAIN results[i] :
                    results[i][k] = BookPath(i, used[i].links[k])

\* the gather has returned although the last page completed first
C5_Witness ==
    /\ mpc = "done"
    /\ order[1] = NumPages
    /\ \A i \in Pages : results[i] # <<>>

\* C6 (as claimed): when the gather of main is over, normally or not, no task
\* of the batch is still in flight.
C6_AllSettledAtReturn == mpc \in {"parse", "done", "raised"} => ~InFlight

\* C8 (as claimed): no two tasks for the same cache path are in flight
\* together, and no path is written twice in one run.
C8_NoConcurrentSameKey ==
    /\ \A p \in Pages : \A i, j \in DOMAIN btask[p] :
          (i # j /\ BookInFlight(p, i) /\ BookInFlight(p, j)) => ret[p][i] # ret[p][j]
    /\ \A x \in Paths : writes[x] <= 1

\* every page and every book of its listing is in the cache
FullyPopulated(d) ==
    \A p \in Pages :
        /\ isfile(d, PagePath(p))
        /\ \A i \in DOMAIN BookNames(d[PagePath(p)]) :
              isfile(d, BookPath(p, BookNames(d[PagePath(p)])[i]))

\* C9: a run that starts on a cache the previous run fully populated issues no
\* GET, leaves every cache file as it was, raises nothing before the output
\* stage, and reads back the bodies of the cache: the same the previous run
\* read back, if it got there.
C9_Idempotent ==
    (run >= 2 /\ FullyPopulated(diskPrev)) =>
        /\ \A x \in Paths : netCalls[x] = 0 /\ writes[x] = 0
        /\ disk = diskPrev
        /\ mainExc \in {"none", "IndexError"}
        /\ bodies # <<>> =>
              /\ \A p \in Pages : \A i \in DOMAIN bodies[p] : bodies[p][i] = diskPrev[ret[p][i]]
              /\ bodiesPrev # <<>> => bodies = bodiesPrev

\* the second run has ended on a cache the first run filled and read back
C9_Witness ==
    /\ run = 2 /\ mpc = "done"
    /\ FullyPopulated(diskPrev)
    /\ bodiesPrev # <<>>
    /\ \E p \in Pages : \E i \in DOMAIN bodies[p] : bodies[p][i] = BookBody

\* C10 (as claimed): an OSError of a cache write does not leave main.
C10_WriteErrorContained == mainExc # "OSError"

\* C11 (as claimed): on an empty cache root (source/pagination_pages does not
\* exist) with every fetch answered 2xx with a body and no other failure, the
\* crawl ends normally and every page and book of the listings is in the cache.
C11_DirsOnDemand ==
    ( /\ ~pagDir /\ run = 1
      /\ mpc \notin {"gather", "parse"}
      /\ \A p \in Pages : ptask[p].out \in {"ok", "none"} /\ ptask[p].exc # "TypeError"
      /\ \A p \in Pages : \A i \in DOMAIN btask[p] : btask[p][i].out \in {"ok", "none"} )
    => (mpc = "done" /\ FullyPopulated(disk))

C17_Budget ==
    \A t \in FetchTasks :
        /\ attempt[t] \in 0..retries[t]
        /\ gets[t] <= retries[t]
        /\ (fpc[t] = "returned" /\ fret[t] = OkBody) =>
              /\ gets[t] = attempt[t] + 1
              /\ sleeps[t] = attempt[t]
              /\ waited[t] = attempt[t] * delay[t]

\* C17, the step part: a call that has returned does nothing more
C17_Final ==
    \A t \in FetchTasks :
        fpc[t] = "returned" =>
            /\ fpc'[t] = fpc[t] /\ fret'[t] = fret[t] /\ attempt'[t] = attempt[t]
            /\ gets'[t] = gets[t] /\ sleeps'[t] = sleeps[t] /\ waited'[t] = waited[t]

\* C17: with every attempt settling, a fetch_with_retry call returns after at
\* most retries attempts; if attempt k is the first to succeed it has made k
\* attempts and k-1 delays, returns the body and attempts and sleeps no more;
\* attempt stays within 0..retries.
C17_Terminates ==
    /\ []C17_Budget
    /\ [][C17_Final]_vars
    /\ \A t \in FetchTasks : (fpc[t] \in {"get", "sleep"}) ~> (fpc[t] = "returned")

\* a call with three retries has returned the body of its third attempt
C17_Witness ==
    \E t \in FetchTasks :
        /\ fpc[t] = "returned" /\ fret[t] = OkBody
        /\ retries[t] = 3 /\ gets[t] = 3 /\ sleeps[t] = 2

\* C15 (as claimed): when the record list is empty the output stage does not
\* raise, the CSV file is neither created nor truncated, and the JSON file is
\* written.
C15_EmptyOutputSkipped ==
    (run = 1 /\ bodies # <<>> /\ Records(bodies) = 0) =>
        (mainExc = "none" /\ csv = "absent" /\ json = "written")


(***************************************************************************)
(* The scripts whose main starts with one fetch_with_retry call:           *)
(* hockey/hockey.py, films/films.py, turtles/turtles.py                    *)
(***************************************************************************)
FirstStageScripts == {"hockey/hockey.py", "films/films.py", "turtles/turtles.py"}
\* the defaults of the retries and delay parameters
DefaultRetries == 3
DefaultDelay == 5

\* the object has the methods text(), json() and close(): an
\* aiohttp.ClientResponse has them, a str and None have not
HasTextMethod(v) == v.kind = "response"
\* await response.text()
text_of(v) == Text("body", v.links)
\* what the first page of the site lists (pages, years, turtle links): the
\* site has NumPages of them, an error page or an empty text has none
Discovered(text) == IF text.kind = "body" THEN NumPages ELSE 0

\* get_pages_count, get_years, get_turtle_links once fetch_with_retry has
\* returned v: the exception that leaves the function, or its return value
first_stage(script, v) ==
    IF ~HasTextMethod(v)
      THEN \* response.text() raises AttributeError
           IF script = "hockey/hockey.py"
             THEN [exc |-> "none", ret |-> -1]
             ELSE [exc |-> "AttributeError", ret |-> 0]
      ELSE LET text == text_of(v)
               n == Discovered(text)
           IN IF script = "hockey/hockey.py"
                THEN [exc |-> "none",
                      ret |-> IF ~Truthy(text) THEN -1
                              ELSE IF n < 2 THEN 1 ELSE n]
                ELSE [exc |-> "none", ret |-> n]

\* main after the first stage: where it goes and how many tasks it gathers
after_first_stage(script, r) ==
    IF r.exc # "none" THEN [pc |-> "raised", tasks |-> 0]
    ELSE IF script = "hockey/hockey.py" /\ r.ret = -1 THEN [pc |-> "exit", tasks |-> 0]
    ELSE IF script = "films/films.py" /\ r.ret = 0 THEN [pc |-> "exit", tasks |-> 0]
    ELSE [pc |-> "fanout", tasks |-> r.ret]

\* a script is started: main opens the session and enters the first stage
ScriptStart(t, s) ==
    /\ cpc[t] = "idle"
    /\ cprog' = [cprog EXCEPT ![t] = s]
    /\ cpc' = [cpc EXCEPT ![t] = "first"]
    /\ UNCHANGED <<cret, ctasks>>
    /\ UNCHANGED <<fvars, bvars, kvars, hvars>>

\* the first stage calls fetch_with_retry(session, url)
FirstFetch(t) ==
    /\ cpc[t] = "first"
    /\ FetchCall(t, DefaultRetries, DefaultDelay)

\* fetch_with_retry has returned: the rest of the first stage, and main up to
\* its gather
FirstStageDone(t) ==
    /\ cpc[t] = "first"
    /\ fpc[t] = "returned"
    /\ LET r == first_stage(cprog[t], fret[t])
           m == after_first_stage(cprog[t], r)
       IN /\ cret' = [cret EXCEPT ![t] = r.ret]
          /\ cpc' = [cpc EXCEPT ![t] = m.pc]
          /\ ctasks' = [ctasks EXCEPT ![t] = m.tasks]
    /\ UNCHANGED cprog
    /\ UNCHANGED <<fvars, bvars, kvars, hvars>>

InitFirst == Init /\ pagDir
NextFirst ==
    \E t \in FetchTasks :
        \/ \E s \in FirstStageScripts : ScriptStart(t, s)
        \/ FirstFetch(t)
        \/ \E o \in FetchOutcomes : FetchAttempt(t, o)
        \/ FetchWake(t)
        \/ FirstStageDone(t)
SpecFirst == InitFirst /\ [][NextFirst]_vars

\* C16: whenever the first-stage fetch of hockey, films or turtles succeeds,
\* the caller obtains the body and main gathers one task per discovered item
\* (pages, years, links); hockey's get_pages_count returns -1 only when the
\* fetch failed or the body was empty.
C16_ReturnUsable ==
    \A t \in FetchTasks :
        cpc[t] \in {"fanout", "exit", "raised"} =>
            /\ fret[t] = OkBody =>
                   /\ cpc[t] = "fanout"
                   /\ ctasks[t] = Discovered(OkBody)
            /\ (cprog[t] = "hockey/hockey.py" /\ cret[t] = -1) =>
                   fret[t] \in {None, EmptyText}


(***************************************************************************)
(* hockey/hockey_sync.py: the sequential scraper                           *)
(***************************************************************************)
\* the text soup.find finds a table with rows in, or a pagination in
HasTable(text) == text.kind = "body"
\* len(rows_data) of parse_page for the text of a response
RowsOf(text) == IF HasTable(text) THEN 1 ELSE 0
\* pages_count of get_pages_count for a non-empty text
pages_count(text) == IF Discovered(text) < 2 THEN 1 ELSE Discovered(text)

\* main reaches the end of the for loop over the pages
LoopEnd(i, n) == IF i > n THEN "save" ELSE "pages"

\* get_pages_count: the GET, then the page count read from the response
HsPagesCount(o, body) ==
    /\ prog = "hockey/hockey_sync.py"
    /\ hpc = "count"
    /\ IF o = "ok" /\ Truthy(body)
         THEN /\ hcount' = pages_count(body)
              /\ hpage' = 1
              /\ hpc' = LoopEnd(1, pages_count(body))
         ELSE /\ hcount' = -1
              /\ hpc' = "exit"
              /\ UNCHANGED hpage
    /\ UNCHANGED <<prog, hdata, hsrc, hpending, hcsv, hjson>>
    /\ UNCHANGED <<fvars, bvars, cvars, kvars>>

\* one pass of the loop of main: parse_page(per_page, i) fetches page i and
\* parses the rows from the text of the response
HsParsePage(o, body) ==
    /\ hpc = "pages"
    /\ IF o = "ok"
         THEN /\ hdata' = hdata + RowsOf(body)
              /\ hsrc' = "response"
              /\ hpending' = (hpage < hcount)
         ELSE UNCHANGED <<hdata, hsrc, hpending>>
    /\ hpage' = hpage + 1
    /\ hpc' = LoopEnd(hpage + 1, hcount)
    /\ UNCHANGED <<prog, hcount, hcsv, hjson>>
    /\ UNCHANGED <<fvars, bvars, cvars, kvars>>

\* save_to_json, then save_to_csv; an error of the write is logged
HsSave(ioj, ioc) ==
    /\ hpc = "save"
    /\ hjson' = IF ioj = "ok" THEN "written" ELSE hjson
    /\ hcsv' = IF ioc = "ok" THEN save_to_csv(hdata, hcsv).csv ELSE hcsv
    /\ hpc' = "done"
    /\ UNCHANGED <<prog, hcount, hpage, hdata, hsrc, hpending>>
    /\ UNCHANGED <<fvars, bvars, cvars, kvars>>

NextHockeySync ==
    \/ \E o \in Outcomes : \E body \in BodiesOf(o, {OkBody, EmptyText}) : HsPagesCount(o, body)
    \/ \E o \in Outcomes : \E body \in BodiesOf(o, {OkBody, EmptyText}) : HsParsePage(o, body)
    \/ \E ioj \in IoOutcomes, ioc \in IoOutcomes : HsSave(ioj, ioc)

\* either script is run: books/async.py or hockey/hockey_sync.py
Scripts == {"books/async.py", "hockey/hockey_sync.py"}
InitScripts == InitBase /\ prog \in Scripts
NextScripts == Next \/ NextHockeySync
SpecScripts == InitScripts /\ [][NextScripts]_vars

\* phase 2 of books/async.py: the texts main parses are the cached files
ReadBack(d, res) ==
    [i \in DOMAIN res |-> [k \in DOMAIN res[i] |-> ReadHtml(d, res[i][k])]]

NewImage(n) == [pc |-> "get", name |-> n, bytes |-> NoFile]

\* GET requests issued for file n by the tasks of the listing l
IssuedFor(l, n) == Cardinality({i \in DOMAIN l : l[i] = n})

\* main starts fetch_batch(session, page): up to the GET of the API
CatBatchStart(p) ==
    /\ kpc = "gather"
    /\ kbatch[p] = "start"
    /\ kbatch' = [kbatch EXCEPT ![p] = "get"]
    /\ UNCHANGED <<kpc, kimg, img, imgPrev, imgCalls, krun>>
    /\ UNCHANGED <<fvars, bvars, cvars, hvars>>

\* the API answers: on 200 one task per listed image, none of them asking
\* whether the file is there already; an error of the transport leaves fetch_batch
CatBatchGetDone(p, o, l) ==
    /\ kbatch[p] = "get"
    /\ IF o = "ok"
         THEN /\ kimg' = [kimg EXCEPT ![p] = [i \in DOMAIN l |-> NewImage(l[i])]]
              /\ imgCalls' = [n \in CatNames |-> imgCalls[n] + IssuedFor(l, n)]
              /\ kbatch' = [kbatch EXCEPT ![p] = "gather"]
         ELSE /\ kbatch' = [kbatch EXCEPT ![p] = IF o = "status" THEN "done" ELSE "raised"]
              /\ UNCHANGED <<kimg, imgCalls>>
    /\ UNCHANGED <<kpc, img, imgPrev, krun>>
    /\ UNCHANGED <<fvars, bvars, cvars, hvars>>

\* the image URL answers: on 200 the bytes are read and save_image is awaited
CatImageGetDone(p, i, o, b) ==
    /\ kimg[p][i].pc = "get"
    /\ kimg' = [kimg EXCEPT ![p][i] =
                  IF o = "ok" THEN [@ EXCEPT !.pc = "save", !.bytes = b]
                  ELSE IF o = "status" THEN [@ EXCEPT !.pc = "done"]
                  ELSE [@ EXCEPT !.pc = "raised"]]
    /\ UNCHANGED <<kpc, kbatch, img, imgPrev, imgCalls, krun>>
    /\ UNCHANGED <<fvars, bvars, cvars, hvars>>

\* save_image: the file is opened "wb" and written; an error is printed
save_image(files, n, b, io) == IF io = "ok" THEN [files EXCEPT ![n] = b] ELSE files

CatImageSaveDone(p, i, io) ==
    /\ kimg[p][i].pc = "save"
    /\ img' = save_image(img, kimg[p][i].name, kimg[p][i].bytes, io)
    /\ kimg' = [kimg EXCEPT ![p][i].pc = "done"]
    /\ UNCHANGED <<kpc, kbatch, imgPrev, imgCalls, krun>>
    /\ UNCHANGED <<fvars, bvars, cvars, hvars>>

\* the gather of fetch_batch: the first exception leaves it, else all have returned
CatBatchGatherDone(p) ==
    /\ kbatch[p] = "gather"
    /\ \/ /\ \E i \in DOMAIN kimg[p] : kimg[p][i].pc = "raised"
          /\ kbatch' = [kbatch EXCEPT ![p] = "raised"]
       \/ /\ \A i \in DOMAIN kimg[p] : kimg[p][i].pc = "done"
          /\ kbatch' = [kbatch EXCEPT ![p] = "done"]
    /\ UNCHANGED <<kpc, kimg, img, imgPrev, imgCalls, krun>>
    /\ UNCHANGED <<fvars, bvars, cvars, hvars>>

\* the gather of main
CatMainGatherDone ==
    /\ kpc = "gather"
    /\ \/ /\ \E p \in Pages : kbatch[p] = "raised"
          /\ kpc' = "raised"
       \/ /\ \A p \in Pages : kbatch[p] = "done"
          /\ kpc' = "done"
    /\ UNCHANGED <<kbatch, kimg, img, imgPrev, imgCalls, krun>>
    /\ UNCHANGED <<fvars, bvars, cvars, hvars>>

\* asyncio.run cancels what is still pending once main has raised
CatCancelled(pc) == IF pc \in {"start", "get", "save", "gather"} THEN "cancelled" ELSE pc

CatCleanup ==
    /\ kpc = "raised"
    /\ kpc' = "aborted"
    /\ kbatch' = [p \in Pages |-> CatCancelled(kbatch[p])]
    /\ kimg' = [p \in Pages |->
                  [i \in DOMAIN kimg[p] |-> [kimg[p][i] EXCEPT !.pc = CatCancelled(@)]]]
    /\ UNCHANGED <<img, imgPrev, imgCalls, krun>>
    /\ UNCHANGED <<fvars, bvars, cvars, hvars>>

\* the script is run again on the cat_images directory the last run left
CatNextRun ==
    /\ kpc \in {"done", "aborted"}
    /\ krun < MaxRuns
    /\ krun' = krun + 1
    /\ imgPrev' = img
    /\ imgCalls' = [n \in CatNames |-> 0]
    /\ kpc' = "gather"
    /\ kbatch' = [p \in Pages |-> "start"]
    /\ kimg' = [p \in Pages |-> <<>>]
    /\ UNCHANGED img
    /\ UNCHANGED <<fvars, bvars, cvars, hvars>>

InitCats == Init /\ pagDir
NextCats ==
    \/ \E p \in Pages : CatBatchStart(p)
    \/ \E p \in Pages, o \in Outcomes :
         \E l \in (IF o = "ok" THEN CatListings ELSE {<<>>}) : CatBatchGetDone(p, o, l)
    \/ \E p \in Pages : \E i \in DOMAIN kimg[p], o \in Outcomes :
         \E b \in (IF o = "ok" THEN ImageBytes ELSE {NoFile}) : CatImageGetDone(p, i, o, b)
    \/ \E p \in Pages : \E i \in DOMAIN kimg[p], io \in IoOutcomes : CatImageSaveDone(p, i, io)
    \/ \E p \in Pages : CatBatchGatherDone(p)
    \/ CatMainGatherDone
    \/ CatCleanup
    \/ CatNextRun
SpecCats == InitCats /\ [][NextCats]_vars

\* C13: an image file that is under the images directory before a run is
\* authoritative: the run issues no GET for it and leaves its content as it was.
C13_ImageCacheAuthoritative ==
    \A n \in CatNames :
        (krun > 1 /\ imgPrev[n] # NoFile) =>
            (imgCalls[n] = 0 /\ img[n] = imgPrev[n])

====
